---- MODULE Spec2Model ----
(***************************************************************************)
(* Model of the Authorize.net connector transformers                       *)
(* (crates/router/src/connector/authorizedotnet/transformers.rs): the      *)
(* Build (canonical request -> wire request) and Parse (wire response ->   *)
(* canonical record) conversions of the authorize, capture, void, refund,  *)
(* refund-sync and payment-sync flows, with their status and error         *)
(* normalisation.  Spec is the life cycle of one payment and one refund    *)
(* record through these operations; SpecFn applies the status mapping      *)
(* functions to every input on their own.  SpecDb is the in-memory MockDb  *)
(* of crates/router/src/db.rs accessed by concurrent tasks, SpecKv the     *)
(* get_and_deserialize_key helper over the key/value store, SpecAn the     *)
(* analytics route handlers of crates/router/src/analytics.rs.  SpecParse  *)
(* applies the Parse conversions to records of every status on their own.  *)
(*                                                                         *)
(* Conventions: Option<T> is a sequence of length 0 (None) or 1 (Some);    *)
(* Result<T, E> is [ok |-> TRUE, val |-> t] or [ok |-> FALSE, err |-> e];  *)
(* a Vec<T> is a sequence; a serde_json::Value is a tagged record          *)
(* [t |-> "null"], [t |-> "str", s |-> ..] or [t |-> "obj", f |-> ..]      *)
(* where f is the function from the object's keys to their values.         *)
(***************************************************************************)
EXTENDS Integers, Sequences, FiniteSets, TLC

\* ------------------------------------------------------------------ bounds
\* Longest native error array a wire response carries.
MaxErrors == 2
\* Tasks that access the MockDb concurrently, one storage operation each.
NumTasks == 2

\* ------------------------------------------------------------ conventions
None == <<>>
Some(x) == <<x>>
IsSome(o) == Len(o) = 1
Unwrap(o) == o[1]
Ok(v) == [ok |-> TRUE, val |-> v]
Err(e) == [ok |-> FALSE, err |-> e]

RECURSIVE SeqsUpTo(_, _)
SeqsUpTo(S, n) ==
    IF n = 0 THEN {<<>>}
    ELSE LET shorter == SeqsUpTo(S, n - 1)
         IN  shorter \cup {Append(s, x) : s \in {t \in shorter : Len(t) = n - 1}, x \in S}

\* ----------------------------------------------------------- input domains
TransIds == {"t1", "t2"}
AccountNumbers == {"XXXX1111"}
Money == {[amount |-> 1000, currency |-> "USD"], [amount |-> 2500, currency |-> "EUR"]}
Amounts == {money.amount : money \in Money}
Currencies == {money.currency : money \in Money}
HttpCodes == {200, 400}
Tokens == {"tok"}

\* enums::AttemptStatus, the variants the transformers produce or test.
AttemptStatus ==
    {"Pending", "Authorized", "Charged", "Failure", "Voided", "VoidFailed",
     "AuthenticationFailed"}
\* enums::RefundStatus
RefundStatus == {"Pending", "Success", "Failure"}
\* enums::CaptureMethod, as the Option the authorize request carries.
CaptureMethods == {None, Some("Manual"), Some("Automatic")}

\* types::ConnectorAuthType: the credential shapes a connector may be handed.
ConnectorAuthType ==
    {[type |-> "HeaderKey", api_key |-> "txnkey"],
     [type |-> "BodyKey", api_key |-> "txnkey", key1 |-> "login"],
     [type |-> "SignatureKey", api_key |-> "txnkey", key1 |-> "login",
      api_secret |-> "secret"]}

AuthorizedotnetPaymentStatus == {"Approved", "Declined", "Error", "HeldForReview"}
\* #[default] of AuthorizedotnetPaymentStatus
AuthorizedotnetPaymentStatusDefault == "HeldForReview"

SyncStatus ==
    {"RefundSettledSuccessfully", "RefundPendingSettlement", "AuthorizedPendingCapture",
     "CapturedPendingSettlement", "SettledSuccessfully", "Declined", "Voided",
     "CouldNotVoid", "GeneralError"}

ErrorMessage == [error_code : {"2", "3"}, error_text : {"Declined"}]
\* Option<Vec<ErrorMessage>>
NativeErrors == {None} \cup {Some(v) : v \in SeqsUpTo(ErrorMessage, MaxErrors)}

\* ------------------------------------------------------- status mappings
\* TransactionType and its serde renames.
TransactionTypeName ==
    [Payment |-> "authCaptureTransaction", PaymentAuthOnly |-> "authOnlyTransaction",
     Capture |-> "priorAuthCaptureTransaction", Refund |-> "refundTransaction",
     Void |-> "voidTransaction"]

\* Mutant: the native error status taken for a pending one.
MutAttemptStatusFromPaymentStatus(item) ==
    CASE item = "Approved" -> "Charged"
      [] item = "Declined" -> "Failure"
      [] item = "Error" -> "Pending"
      [] item = "HeldForReview" -> "Pending"

\* impl From<AuthorizedotnetPaymentStatus> for enums::AttemptStatus
AttemptStatusFromPaymentStatus(item) ==
    CASE item = "Approved" -> "Charged"
      [] item \in {"Declined", "Error"} -> "Failure"
      [] item = "HeldForReview" -> "Pending"

\* Mutant: || for && in the downgrade condition.
MutGetPaymentStatus(is_auth_only, status) ==
    LET is_authorized == status = "Charged"
    IN  IF is_auth_only \/ is_authorized THEN "Authorized" ELSE status

\* fn get_payment_status
get_payment_status(is_auth_only, status) ==
    LET is_authorized == status = "Charged"
    IN  IF is_auth_only /\ is_authorized THEN "Authorized" ELSE status

\* impl From<AuthorizedotnetPaymentStatus> for enums::RefundStatus
RefundStatusFromPaymentStatus(item) ==
    CASE item = "Approved" -> "Success"
      [] item \in {"Declined", "Error"} -> "Failure"
      [] item = "HeldForReview" -> "Pending"

\* Mutant: pending settlement taken for settled, generalError for pending.
MutRefundStatusFromSyncStatus(transaction_status) ==
    CASE transaction_status = "RefundSettledSuccessfully" -> "Success"
      [] transaction_status = "RefundPendingSettlement" -> "Success"
      [] transaction_status = "GeneralError" -> "Pending"
      [] OTHER -> "Failure"

\* impl From<SyncStatus> for enums::RefundStatus
RefundStatusFromSyncStatus(transaction_status) ==
    CASE transaction_status = "RefundSettledSuccessfully" -> "Success"
      [] transaction_status = "RefundPendingSettlement" -> "Pending"
      [] OTHER -> "Failure"

\* The catch-all of the payment-sync mapping taken for a failure.
MutAttemptStatusFromSyncStatus(transaction_status) ==
    CASE transaction_status \in {"SettledSuccessfully", "CapturedPendingSettlement"} -> "Charged"
      [] transaction_status = "Declined" -> "AuthenticationFailed"
      [] transaction_status = "Voided" -> "Voided"
      [] transaction_status = "CouldNotVoid" -> "VoidFailed"
      [] transaction_status = "GeneralError" -> "Failure"
      [] OTHER -> "Failure"

\* impl From<SyncStatus> for enums::AttemptStatus
AttemptStatusFromSyncStatus(transaction_status) ==
    CASE transaction_status \in {"SettledSuccessfully", "CapturedPendingSettlement"} -> "Charged"
      [] transaction_status = "Declined" -> "AuthenticationFailed"
      [] transaction_status = "Voided" -> "Voided"
      [] transaction_status = "CouldNotVoid" -> "VoidFailed"
      [] transaction_status = "GeneralError" -> "Failure"
      [] OTHER -> "Pending"

\* ------------------------------------------------------------ credentials
\* Mutant: the BodyKey fields swapped and SignatureKey accepted as credentials.
MutMerchantAuthentication(auth_type) ==
    IF auth_type.type = "BodyKey"
    THEN Ok([name |-> auth_type.api_key, transaction_key |-> auth_type.key1])
    ELSE IF auth_type.type = "SignatureKey"
    THEN Ok([name |-> auth_type.key1, transaction_key |-> auth_type.api_key])
    ELSE Err([kind |-> "FailedToObtainAuthType"])

\* impl TryFrom<&ConnectorAuthType> for MerchantAuthentication
MerchantAuthentication(auth_type) ==
    IF auth_type.type = "BodyKey"
    THEN Ok([name |-> auth_type.key1, transaction_key |-> auth_type.api_key])
    ELSE Err([kind |-> "FailedToObtainAuthType"])

\* ------------------------------------------------- serde_json::Value model
JNull == [t |-> "null"]
JStr(s) == [t |-> "str", s |-> s]
JObj(f) == [t |-> "obj", f |-> f]

DeserializationError == Err([kind |-> "ParsingError"])

\* consts::BASE64_ENGINE.encode over the tokens of the model
Base64Encode(token) ==
    CASE token = "tok" -> "dG9r"

\* ---------------------------------------------------------- PaymentDetails
CreditCard(card_number, expiration_date, card_code) ==
    [variant |-> "CreditCard", card_number |-> card_number,
     expiration_date |-> expiration_date, card_code |-> card_code]
BankAccount(account_number) ==
    [variant |-> "BankAccount", account_number |-> account_number]
Wallet(data_descriptor, data_value) ==
    [variant |-> "Wallet", data_descriptor |-> data_descriptor, data_value |-> data_value]
Klarna == [variant |-> "Klarna"]
Paypal == [variant |-> "Paypal"]

\* api_models::payments::PaymentMethod values handed to the authorize Build
PaymentMethods ==
    {[type |-> "Card", card_number |-> "4111111111111111", card_exp_month |-> "12",
      card_exp_year |-> "2030", card_cvc |-> "123"],
     [type |-> "BankTransfer"],
     [type |-> "PayLater"],
     [type |-> "Paypal"]}
    \cup [type : {"Wallet"}, issuer_name : {"GooglePay", "ApplePay"},
          token : {None} \cup {Some(t) : t \in Tokens}]

\* Mutant: every wallet with a token encoded as Google Pay, one without as Paypal.
MutPaymentDetailsFromPaymentMethod(value) ==
    CASE value.type = "Card" ->
           Ok(CreditCard(value.card_number,
                         value.card_exp_year \o "-" \o value.card_exp_month,
                         Some(value.card_cvc)))
      [] value.type = "BankTransfer" -> Ok(BankAccount("XXXXX"))
      [] value.type = "PayLater" -> Ok(Klarna)
      [] value.type = "Wallet" ->
           IF IsSome(value.token)
           THEN Ok(Wallet("COMMON.GOOGLE.INAPP.PAYMENT", Base64Encode(Unwrap(value.token))))
           ELSE Ok(Paypal)
      [] value.type = "Paypal" -> Ok(Paypal)

\* impl TryFrom<api_models::payments::PaymentMethod> for PaymentDetails
PaymentDetailsFromPaymentMethod(value) ==
    CASE value.type = "Card" ->
           Ok(CreditCard(value.card_number,
                         value.card_exp_year \o "-" \o value.card_exp_month,
                         Some(value.card_cvc)))
      [] value.type = "BankTransfer" -> Ok(BankAccount("XXXXX"))
      [] value.type = "PayLater" -> Ok(Klarna)
      [] value.type = "Wallet" ->
           IF value.issuer_name = "GooglePay"
           THEN IF IsSome(value.token)
                THEN Ok(Wallet("COMMON.GOOGLE.INAPP.PAYMENT",
                               Base64Encode(Unwrap(value.token))))
                ELSE Err([kind |-> "RequestEncodingFailed"])
           ELSE Err([kind |-> "NotImplemented",
                     message |-> "Unknown Wallet in Payment Method"])
      [] value.type = "Paypal" -> Ok(Paypal)

\* Mutant: the camelCase renaming of the keys left out.
MutSerializeCreditCardDetails(d) ==
    JObj([card_number |-> JStr(d.card_number), expiration_date |-> JStr(d.expiration_date)])

\* #[derive(Serialize)] CreditCardDetails: camelCase keys, cardCode skipped when None
SerializeCreditCardDetails(d) ==
    IF IsSome(d.card_code)
    THEN JObj([cardNumber |-> JStr(d.card_number),
               expirationDate |-> JStr(d.expiration_date),
               cardCode |-> JStr(Unwrap(d.card_code))])
    ELSE JObj([cardNumber |-> JStr(d.card_number),
               expirationDate |-> JStr(d.expiration_date)])

\* Encode::<PaymentDetails>::encode_to_value: the externally tagged enum
encode_to_value(p) ==
    CASE p.variant = "CreditCard" -> JObj([creditCard |-> SerializeCreditCardDetails(p)])
      [] p.variant = "BankAccount" ->
           JObj([bankAccount |-> JObj([accountNumber |-> JStr(p.account_number)])])
      [] p.variant = "Wallet" ->
           JObj([opaqueData |-> JObj([dataDescriptor |-> JStr(p.data_descriptor),
                                      dataValue |-> JStr(p.data_value)])])
      [] p.variant = "Klarna" -> JStr("Klarna")
      [] p.variant = "Paypal" -> JStr("Paypal")

HasStr(v, k) == k \in DOMAIN v.f /\ v.f[k].t = "str"

\* #[derive(Deserialize)] CreditCardDetails
DeserializeCreditCardDetails(v) ==
    IF v.t = "obj" /\ HasStr(v, "cardNumber") /\ HasStr(v, "expirationDate")
       /\ ("cardCode" \in DOMAIN v.f => v.f["cardCode"].t \in {"str", "null"})
    THEN Ok(CreditCard(v.f["cardNumber"].s, v.f["expirationDate"].s,
                       IF HasStr(v, "cardCode") THEN Some(v.f["cardCode"].s) ELSE None))
    ELSE DeserializationError

\* #[derive(Deserialize)] BankAccountDetails
DeserializeBankAccountDetails(v) ==
    IF v.t = "obj" /\ HasStr(v, "accountNumber")
    THEN Ok(BankAccount(v.f["accountNumber"].s))
    ELSE DeserializationError

\* #[derive(Deserialize)] WalletDetails
DeserializeWalletDetails(v) ==
    IF v.t = "obj" /\ HasStr(v, "dataDescriptor") /\ HasStr(v, "dataValue")
    THEN Ok(Wallet(v.f["dataDescriptor"].s, v.f["dataValue"].s))
    ELSE DeserializationError

\* ValueExt::parse_value::<PaymentDetails>
parse_value(v) ==
    CASE v.t = "str" ->
           IF v.s \in {"Klarna", "Paypal"} THEN Ok([variant |-> v.s])
           ELSE DeserializationError
      [] v.t = "obj" ->
           IF Cardinality(DOMAIN v.f) # 1 THEN DeserializationError
           ELSE LET k == CHOOSE key \in DOMAIN v.f : TRUE
                    inner == v.f[k]
                IN  CASE k = "creditCard" -> DeserializeCreditCardDetails(inner)
                      [] k = "bankAccount" -> DeserializeBankAccountDetails(inner)
                      [] k = "opaqueData" -> DeserializeWalletDetails(inner)
                      [] k \in {"Klarna", "Paypal"} ->
                           IF inner.t = "null" THEN Ok([variant |-> k])
                           ELSE DeserializationError
                      [] OTHER -> DeserializationError
      [] OTHER -> DeserializationError

\* The masked placeholder also stored as a card code.
MutConstructRefundPaymentDetails(masked_number) ==
    CreditCard(masked_number, "XXXX", Some("XXXX"))

\* fn construct_refund_payment_details
construct_refund_payment_details(masked_number) ==
    CreditCard(masked_number, "XXXX", None)

\* ------------------------------------------------------------------ Build
\* CreateTransactionRequest { create_transaction_request: AuthorizedotnetPaymentsRequest }
CreateTransactionRequest(merchant_authentication, transaction_request) ==
    [create_transaction_request |->
        [merchant_authentication |-> merchant_authentication,
         transaction_request |-> transaction_request]]

\* An absent capture method taken for a manual one.
MutBuildAuthorize(item) ==
    LET payment_details == PaymentDetailsFromPaymentMethod(item.request.payment_method_data)
    IN  IF ~payment_details.ok THEN payment_details
        ELSE LET transaction_type ==
                     IF item.request.capture_method = Some("Automatic")
                     THEN "Payment" ELSE "PaymentAuthOnly"
                 transaction_request ==
                     [kind |-> "AuthRequest",
                      transaction_type |-> TransactionTypeName[transaction_type],
                      amount |-> item.request.amount,
                      currency_code |-> item.request.currency,
                      payment |-> payment_details.val]
                 merchant_authentication == MerchantAuthentication(item.connector_auth_type)
             IN  IF ~merchant_authentication.ok THEN merchant_authentication
                 ELSE Ok(CreateTransactionRequest(merchant_authentication.val,
                                                  transaction_request))

\* The credentials extracted before the payment method is converted.
MutBuildAuthorizeAuthFirst(item) ==
    LET merchant_authentication == MerchantAuthentication(item.connector_auth_type)
        payment_details == PaymentDetailsFromPaymentMethod(item.request.payment_method_data)
    IN  IF ~merchant_authentication.ok THEN merchant_authentication
        ELSE IF ~payment_details.ok THEN payment_details
        ELSE LET transaction_type ==
                     IF item.request.capture_method = Some("Manual")
                     THEN "PaymentAuthOnly" ELSE "Payment"
                 transaction_request ==
                     [kind |-> "AuthRequest",
                      transaction_type |-> TransactionTypeName[transaction_type],
                      amount |-> item.request.amount,
                      currency_code |-> item.request.currency,
                      payment |-> payment_details.val]
             IN  Ok(CreateTransactionRequest(merchant_authentication.val,
                                             transaction_request))

\* impl TryFrom<&PaymentsAuthorizeRouterData> for CreateTransactionRequest
BuildAuthorize(item) ==
    LET payment_details == PaymentDetailsFromPaymentMethod(item.request.payment_method_data)
    IN  IF ~payment_details.ok THEN payment_details
        ELSE LET transaction_type ==
                     IF item.request.capture_method = Some("Manual")
                     THEN "PaymentAuthOnly" ELSE "Payment"
                 transaction_request ==
                     [kind |-> "AuthRequest",
                      transaction_type |-> TransactionTypeName[transaction_type],
                      amount |-> item.request.amount,
                      currency_code |-> item.request.currency,
                      payment |-> payment_details.val]
                 merchant_authentication == MerchantAuthentication(item.connector_auth_type)
             IN  IF ~merchant_authentication.ok THEN merchant_authentication
                 ELSE Ok(CreateTransactionRequest(merchant_authentication.val,
                                                  transaction_request))

\* A capture sent as a new authorize-and-capture transaction.
MutBuildCapture(item) ==
    LET transaction_request ==
            [kind |-> "CaptureRequest",
             transaction_type |-> TransactionTypeName["Payment"],
             amount |-> item.request.amount,
             ref_trans_id |-> item.request.connector_transaction_id]
        merchant_authentication == MerchantAuthentication(item.connector_auth_type)
    IN  IF ~merchant_authentication.ok THEN merchant_authentication
        ELSE Ok(CreateTransactionRequest(merchant_authentication.val, transaction_request))

\* impl TryFrom<&PaymentsCaptureRouterData> for CreateTransactionRequest
BuildCapture(item) ==
    LET transaction_request ==
            [kind |-> "CaptureRequest",
             transaction_type |-> TransactionTypeName["Capture"],
             amount |-> item.request.amount,
             ref_trans_id |-> item.request.connector_transaction_id]
        merchant_authentication == MerchantAuthentication(item.connector_auth_type)
    IN  IF ~merchant_authentication.ok THEN merchant_authentication
        ELSE Ok(CreateTransactionRequest(merchant_authentication.val, transaction_request))

\* impl TryFrom<&PaymentsCancelRouterData> for CreateTransactionRequest
BuildVoid(item) ==
    LET transaction_request ==
            [kind |-> "VoidRequest",
             transaction_type |-> TransactionTypeName["Void"],
             ref_trans_id |-> item.request.connector_transaction_id]
        merchant_authentication == MerchantAuthentication(item.connector_auth_type)
    IN  IF ~merchant_authentication.ok THEN merchant_authentication
        ELSE Ok(CreateTransactionRequest(merchant_authentication.val, transaction_request))

\* Mutant: the credentials extracted before connector_metadata is required.
MutBuildRefund(item) ==
    LET merchant_authentication == MerchantAuthentication(item.connector_auth_type)
    IN  IF ~merchant_authentication.ok THEN merchant_authentication
        ELSE IF ~IsSome(item.request.connector_metadata)
        THEN Err([kind |-> "MissingRequiredField", field_name |-> "connector_metadata"])
        ELSE LET payment == parse_value(Unwrap(item.request.connector_metadata))
             IN  IF ~payment.ok
                 THEN Err([kind |-> "MissingRequiredField", field_name |-> "payment_details"])
                 ELSE Ok(CreateTransactionRequest(
                            merchant_authentication.val,
                            [kind |-> "RefundRequest",
                             transaction_type |-> TransactionTypeName["Refund"],
                             amount |-> item.request.refund_amount,
                             currency_code |-> item.request.currency,
                             payment |-> payment.val,
                             reference_transaction_id |->
                                 item.request.connector_transaction_id]))

\* Metadata that does not decode replaced by a default payment payload.
MutBuildRefundDefault(item) ==
    IF ~IsSome(item.request.connector_metadata)
    THEN Err([kind |-> "MissingRequiredField", field_name |-> "connector_metadata"])
    ELSE LET payment_details == Unwrap(item.request.connector_metadata)
             merchant_authentication == MerchantAuthentication(item.connector_auth_type)
             payment == parse_value(payment_details)
         IN  IF ~merchant_authentication.ok THEN merchant_authentication
             ELSE Ok(CreateTransactionRequest(
                        merchant_authentication.val,
                        [kind |-> "RefundRequest",
                         transaction_type |-> TransactionTypeName["Refund"],
                         amount |-> item.request.refund_amount,
                         currency_code |-> item.request.currency,
                         payment |-> IF payment.ok THEN payment.val ELSE Paypal,
                         reference_transaction_id |-> item.request.connector_transaction_id]))

\* impl<F> TryFrom<&RefundsRouterData<F>> for CreateTransactionRequest
BuildRefund(item) ==
    IF ~IsSome(item.request.connector_metadata)
    THEN Err([kind |-> "MissingRequiredField", field_name |-> "connector_metadata"])
    ELSE LET payment_details == Unwrap(item.request.connector_metadata)
             merchant_authentication == MerchantAuthentication(item.connector_auth_type)
             payment == parse_value(payment_details)
         IN  IF ~merchant_authentication.ok THEN merchant_authentication
             ELSE IF ~payment.ok
             THEN Err([kind |-> "MissingRequiredField", field_name |-> "payment_details"])
             ELSE Ok(CreateTransactionRequest(
                        merchant_authentication.val,
                        [kind |-> "RefundRequest",
                         transaction_type |-> TransactionTypeName["Refund"],
                         amount |-> item.request.refund_amount,
                         currency_code |-> item.request.currency,
                         payment |-> payment.val,
                         reference_transaction_id |-> item.request.connector_transaction_id]))

\* AuthorizedotnetCreateSyncRequest { get_transaction_details_request: TransactionDetails }
AuthorizedotnetCreateSyncRequest(merchant_authentication, transaction_id) ==
    [get_transaction_details_request |->
        [merchant_authentication |-> merchant_authentication,
         transaction_id |-> transaction_id]]

\* The refund looked up under the payment's transaction id.
MutBuildRSync(item) ==
    IF ~IsSome(item.request.connector_refund_id)
    THEN Err([kind |-> "MissingConnectorRefundID"])
    ELSE LET transaction_id == item.request.connector_transaction_id
             merchant_authentication == MerchantAuthentication(item.connector_auth_type)
         IN  IF ~merchant_authentication.ok THEN merchant_authentication
             ELSE Ok(AuthorizedotnetCreateSyncRequest(merchant_authentication.val,
                                                      Some(transaction_id)))

\* impl<F> TryFrom<&RefundsRouterData<F>> for AuthorizedotnetCreateSyncRequest
BuildRSync(item) ==
    IF ~IsSome(item.request.connector_refund_id)
    THEN Err([kind |-> "MissingConnectorRefundID"])
    ELSE LET transaction_id == Unwrap(item.request.connector_refund_id)
             merchant_authentication == MerchantAuthentication(item.connector_auth_type)
         IN  IF ~merchant_authentication.ok THEN merchant_authentication
             ELSE Ok(AuthorizedotnetCreateSyncRequest(merchant_authentication.val,
                                                      Some(transaction_id)))

\* ResponseId::get_connector_transaction_id
get_connector_transaction_id(resource_id) ==
    IF resource_id.type = "ConnectorTransactionId" THEN Ok(resource_id.id)
    ELSE Err([kind |-> "MissingRequiredField", field_name |-> "connector_transaction_id"])

\* A prior error response refused for want of a transaction id.
MutBuildPSync(item) ==
    LET transaction_id ==
            IF ~item.response.ok
            THEN Err([kind |-> "MissingRequiredField", field_name |-> "transaction_id"])
            ELSE IF item.response.val.type = "TransactionResponse"
            THEN LET id == get_connector_transaction_id(item.response.val.resource_id)
                 IN  IF id.ok THEN Ok(Some(id.val)) ELSE id
            ELSE Err([kind |-> "MissingRequiredField", field_name |-> "transaction_id"])
        merchant_authentication == MerchantAuthentication(item.connector_auth_type)
    IN  IF ~transaction_id.ok THEN Err([kind |-> "ResponseHandlingFailed"])
        ELSE IF ~merchant_authentication.ok THEN merchant_authentication
        ELSE Ok(AuthorizedotnetCreateSyncRequest(merchant_authentication.val,
                                                 transaction_id.val))

\* impl TryFrom<&PaymentsSyncRouterData> for AuthorizedotnetCreateSyncRequest
BuildPSync(item) ==
    LET transaction_id ==
            IF ~item.response.ok THEN Ok(None)
            ELSE IF item.response.val.type = "TransactionResponse"
            THEN LET id == get_connector_transaction_id(item.response.val.resource_id)
                 IN  IF id.ok THEN Ok(Some(id.val)) ELSE id
            ELSE Err([kind |-> "MissingRequiredField", field_name |-> "transaction_id"])
        merchant_authentication == MerchantAuthentication(item.connector_auth_type)
    IN  IF ~transaction_id.ok THEN Err([kind |-> "ResponseHandlingFailed"])
        ELSE IF ~merchant_authentication.ok THEN merchant_authentication
        ELSE Ok(AuthorizedotnetCreateSyncRequest(merchant_authentication.val,
                                                 transaction_id.val))

\* ------------------------------------------------- the request on the wire
\* #[derive(Serialize)] writes a struct as its fields in declaration order,
\* each under its serde name; a serialized struct is the sequence of its
\* <<key, value>> pairs.
\* #[derive(Serialize)] MerchantAuthentication
SerializeMerchantAuthentication(a) ==
    << <<"name", a.name>>, <<"transactionKey", a.transaction_key>> >>

\* The transaction request written through a map sorted by key.
MutSerializeTransactionRequest(r) ==
    CASE r.kind = "AuthRequest" ->
           << <<"amount", r.amount>>, <<"currencyCode", r.currency_code>>,
              <<"payment", encode_to_value(r.payment)>>,
              <<"transactionType", r.transaction_type>> >>
      [] r.kind = "CaptureRequest" ->
           << <<"amount", r.amount>>, <<"refTransId", r.ref_trans_id>>,
              <<"transactionType", r.transaction_type>> >>
      [] r.kind = "VoidRequest" ->
           << <<"refTransId", r.ref_trans_id>>,
              <<"transactionType", r.transaction_type>> >>
      [] r.kind = "RefundRequest" ->
           << <<"amount", r.amount>>, <<"currencyCode", r.currency_code>>,
              <<"payment", encode_to_value(r.payment)>>,
              <<"refTransId", r.reference_transaction_id>>,
              <<"transactionType", r.transaction_type>> >>

\* #[derive(Serialize)] #[serde(untagged)] TransactionRequest over
\* PaymentRequestData, CaptureRequestData, VoidRequestData, RefundRequestData
SerializeTransactionRequest(r) ==
    CASE r.kind = "AuthRequest" ->
           << <<"transactionType", r.transaction_type>>, <<"amount", r.amount>>,
              <<"currencyCode", r.currency_code>>,
              <<"payment", encode_to_value(r.payment)>> >>
      [] r.kind = "CaptureRequest" ->
           << <<"transactionType", r.transaction_type>>, <<"amount", r.amount>>,
              <<"refTransId", r.ref_trans_id>> >>
      [] r.kind = "VoidRequest" ->
           << <<"transactionType", r.transaction_type>>,
              <<"refTransId", r.ref_trans_id>> >>
      [] r.kind = "RefundRequest" ->
           << <<"transactionType", r.transaction_type>>, <<"amount", r.amount>>,
              <<"currencyCode", r.currency_code>>,
              <<"payment", encode_to_value(r.payment)>>,
              <<"refTransId", r.reference_transaction_id>> >>

\* #[derive(Serialize)] AuthorizedotnetPaymentsRequest
SerializeAuthorizedotnetPaymentsRequest(r) ==
    << <<"merchantAuthentication",
         SerializeMerchantAuthentication(r.merchant_authentication)>>,
       <<"transactionRequest", SerializeTransactionRequest(r.transaction_request)>> >>

\* #[derive(Serialize)] CreateTransactionRequest
SerializeCreateTransactionRequest(r) ==
    << <<"createTransactionRequest",
         SerializeAuthorizedotnetPaymentsRequest(r.create_transaction_request)>> >>

\* The keys of a serialized struct, in the order written.
KeysOf(pairs) == [i \in 1 .. Len(pairs) |-> pairs[i][1]]

\* The value written under a key of a serialized struct.
ValueOf(pairs, key) == pairs[CHOOSE i \in 1 .. Len(pairs) : pairs[i][1] = key][2]

\* ------------------------------------------------------------------ Parse
\* The error payload taken from the last entry of the array.
MutFirstError(errors, http_code) ==
    IF IsSome(errors) /\ Len(Unwrap(errors)) > 0
    THEN Some([code |-> Unwrap(errors)[Len(Unwrap(errors))].error_code,
               message |-> Unwrap(errors)[Len(Unwrap(errors))].error_text,
               reason |-> None,
               status_code |-> http_code])
    ELSE None

\* errors.and_then(|errors| errors.into_iter().next().map(|error| ErrorResponse {..}))
FirstError(errors, http_code) ==
    IF IsSome(errors) /\ Len(Unwrap(errors)) > 0
    THEN Some([code |-> Unwrap(errors)[1].error_code,
               message |-> Unwrap(errors)[1].error_text,
               reason |-> None,
               status_code |-> http_code])
    ELSE None

\* A success payload that drops the connector's transaction id.
MutTransactionResponse(transaction_id, connector_metadata) ==
    [type |-> "TransactionResponse",
     resource_id |-> [type |-> "NoResponseId"],
     redirection_data |-> None,
     redirect |-> FALSE,
     mandate_reference |-> None,
     connector_metadata |-> connector_metadata]

\* PaymentsResponseData::TransactionResponse
TransactionResponse(transaction_id, connector_metadata) ==
    [type |-> "TransactionResponse",
     resource_id |-> [type |-> "ConnectorTransactionId", id |-> transaction_id],
     redirection_data |-> None,
     redirect |-> FALSE,
     mandate_reference |-> None,
     connector_metadata |-> connector_metadata]

\* impl TryFrom<(ResponseRouterData<F, AuthorizedotnetPaymentsResponse, T,
\* PaymentsResponseData>, bool)> for RouterData: the authorize/capture/void Parse
ParsePayments(item, is_auth_only) ==
    LET transaction_response == item.response.transaction_response
        status == AttemptStatusFromPaymentStatus(transaction_response.response_code)
        error == FirstError(transaction_response.errors, item.http_code)
        metadata ==
            IF IsSome(transaction_response.account_number)
            THEN Some(encode_to_value(construct_refund_payment_details(
                          Unwrap(transaction_response.account_number))))
            ELSE None
    IN  Ok([item.data EXCEPT
              !.status = get_payment_status(is_auth_only, status),
              !.response =
                  IF IsSome(error) THEN Err(Unwrap(error))
                  ELSE Ok(TransactionResponse(transaction_response.transaction_id,
                                              metadata))])

\* The refund Parse also writing the record's status from the response code.
MutParseRefund(item) ==
    LET transaction_response == item.response.transaction_response
        refund_status == RefundStatusFromPaymentStatus(transaction_response.response_code)
        error == FirstError(transaction_response.errors, item.http_code)
    IN  Ok([item.data EXCEPT
              !.status = AttemptStatusFromPaymentStatus(transaction_response.response_code),
              !.response =
                  IF IsSome(error) THEN Err(Unwrap(error))
                  ELSE Ok([connector_refund_id |-> transaction_response.transaction_id,
                           refund_status |-> refund_status])])

\* impl<F> TryFrom<RefundsResponseRouterData<F, AuthorizedotnetRefundResponse>>
\* for RefundsRouterData<F>: the refund Parse
ParseRefund(item) ==
    LET transaction_response == item.response.transaction_response
        refund_status == RefundStatusFromPaymentStatus(transaction_response.response_code)
        error == FirstError(transaction_response.errors, item.http_code)
    IN  Ok([item.data EXCEPT
              !.response =
                  IF IsSome(error) THEN Err(Unwrap(error))
                  ELSE Ok([connector_refund_id |-> transaction_response.transaction_id,
                           refund_status |-> refund_status])])

\* impl TryFrom<RefundsResponseRouterData<RSync, AuthorizedotnetSyncResponse>>
\* for RefundsRouterData<RSync>: the refund-sync Parse
ParseRSync(item) ==
    LET refund_status == RefundStatusFromSyncStatus(item.response.transaction.transaction_status)
    IN  Ok([item.data EXCEPT
              !.response =
                  Ok([connector_refund_id |-> item.response.transaction.transaction_id,
                      refund_status |-> refund_status])])

\* impl<F, Req> TryFrom<ResponseRouterData<F, AuthorizedotnetSyncResponse, Req,
\* PaymentsResponseData>> for RouterData: the payment-sync Parse
ParsePSync(item) ==
    LET payment_status ==
            AttemptStatusFromSyncStatus(item.response.transaction.transaction_status)
    IN  Ok([item.data EXCEPT
              !.response = Ok(TransactionResponse(item.response.transaction.transaction_id,
                                                  None)),
              !.status = payment_status])

\* ------------------------------------------------------------------ state
VARIABLES
    payment,       \* the payment record's normalised fields: [status, response]
    refund,        \* the refund record's normalised fields: [status, response]
    connector_auth_type, \* the credentials configured for the merchant's connector
    item,          \* the operation in progress: [flow, request]
    wire,          \* the result of the operation's Build
    resp,          \* the wire response handed to the operation's Parse, with http_code
    is_auth_only,  \* the flag handed to the authorize/capture/void Parse
    op,            \* the step taken last
    fn,            \* the status function applied last (SpecFn)
    args,          \* the inputs the status functions are applied to (SpecFn)
    ret,           \* the result of the status function applied last (SpecFn)
    locked,        \* MockDb: whether each table's mutex is locked (SpecDb)
    holding,       \* MockDb: the table whose guard each task holds, if any (SpecDb)
    todo,          \* MockDb: the table accesses each task's operation has left (SpecDb)
    tables,        \* MockDb: the rows of each table (SpecDb)
    seen,          \* MockDb: what each task has read, per table (SpecDb)
    redis,         \* the stored bytes of each key, if any (SpecKv)
    fetched,       \* the last get_and_deserialize_key call and its result (SpecKv)
    index_permissions, \* the index-permission table the routes consult (SpecAn)
    call,          \* the analytics request served last: [handler, index, role_info] (SpecAn)
    lock_action,   \* the lock action its handler passed to server_wrap (SpecAn)
    acquired,      \* the resource locks server_wrap acquired for it (SpecAn)
    searched,      \* the indexes its handler had searched, if it ran a search (SpecAn)
    served         \* the result its handler returned (SpecAn)

recvars == <<connector_auth_type, payment, refund, item, wire, resp, is_auth_only, op>>
fnvars == <<fn, args, ret>>
dbvars == <<locked, holding, todo, tables, seen>>
kvvars == <<redis, fetched>>
anvars == <<index_permissions, call, lock_action, acquired, searched, served>>
vars == <<connector_auth_type, payment, refund, item, wire, resp, is_auth_only, op, fn,
         args, ret, locked, holding, todo, tables, seen, redis, fetched,
         index_permissions, call, lock_action, acquired, searched, served>>

\* ErrorResponse::default(), the response of a record no Parse has filled in
DefaultErrorResponse ==
    [code |-> "IR_00", message |-> "Something went wrong", reason |-> None,
     status_code |-> 500]

NoItem == [flow |-> "None"]
NoWire == Err([kind |-> "NotBuilt"])
NoResp == [kind |-> "None"]

\* The RouterData an operation works on: the record's persisted fields with the
\* operation's request and the configured credentials.
RouterData(record, it) ==
    [status |-> record.status, response |-> record.response,
     request |-> it.request, connector_auth_type |-> connector_auth_type]

\* The record fields a Parse result leaves to be persisted.
Persisted(data) == [status |-> data.status, response |-> data.response]

\* The flag the authorize flow hands to Parse: the request asked for manual capture.
IsAuthOnly(it) == it.request.capture_method = Some("Manual")

\* A response is parsed only for a request that was built and sent.
Sent(flow) == op = flow /\ wire.ok

\* AuthorizedotnetPaymentsResponse / AuthorizedotnetRefundResponse
TransactionResponses ==
    [transaction_response :
        [response_code : AuthorizedotnetPaymentStatus,
         auth_code : {"A1"},
         transaction_id : TransIds,
         account_number : {None} \cup {Some(a) : a \in AccountNumbers},
         errors : NativeErrors]]

\* AuthorizedotnetSyncResponse
SyncResponses ==
    [transaction : [transaction_id : TransIds, transaction_status : SyncStatus]]

\* connector_metadata a refund request may carry besides the payment's own
MetadataInputs ==
    {None,
     Some(JStr("Klarna")),
     Some(JObj([creditCard |-> JObj([cardNumber |-> JStr("XXXX1111")])])),
     Some(encode_to_value(BankAccount("XXXXX")))}

\* ------------------------------------------------------------------ MockDb
\* struct MockDb: the entity tables, each an Arc<Mutex<Vec<_>>> field
MockDbTables ==
    {"merchant_accounts", "merchant_connector_accounts", "payment_attempts",
     "payment_intents", "customers", "refunds", "processes", "connector_response"}

\* One mutex guarding the whole MockDb.
MutMutexOf(table) == "mock_db"

\* The mutex that guards a table: the Mutex of the table's own field.
MutexOf(table) == table

Mutexes == {MutexOf(table) : table \in MockDbTables}

Tasks == 1 .. NumTasks
NoTable == "none"

\* MockDb::new: every table Default::default(), an unlocked mutex over an empty Vec
MockDbNew ==
    /\ locked = [m \in Mutexes |-> FALSE]
    /\ tables = [table \in MockDbTables |-> {}]

DbIdle ==
    /\ MockDbNew
    /\ holding = [t \in Tasks |-> NoTable]
    /\ todo = [t \in Tasks |-> None]
    /\ seen = [t \in Tasks |-> {}]

\* ------------------------------------------------ get_and_deserialize_key
Keys == {"k1", "k2"}
TypeNames == {"EphemeralKey", "AccessToken"}
StoredBytes == {"{\"id\":\"e1\"}", "{\"token\":\"a1\"}", "not json"}

NoFetch == [key |-> "none"]

KvIdle ==
    /\ redis = [k \in Keys |-> None]
    /\ fetched = NoFetch

\* -------------------------------------------------------- analytics routes
\* The route handlers of routes::Analytics::server.
Handlers ==
    {"get_info", "get_payment_metrics", "get_payment_intents_metrics",
     "get_refunds_metrics", "get_frm_metrics", "get_sdk_event_metrics",
     "get_active_payments_metrics", "get_auth_event_metrics", "get_payment_filters",
     "get_payment_intents_filters", "get_refund_filters", "get_frm_filters",
     "get_sdk_event_filters", "get_api_events", "get_outgoing_webhook_events",
     "get_sdk_events", "generate_refund_report", "generate_dispute_report",
     "generate_payment_report", "get_api_events_metrics", "get_api_event_filters",
     "get_connector_events", "get_global_search_results", "get_search_results",
     "get_dispute_filters", "get_dispute_metrics"}

SearchHandlers == {"get_global_search_results", "get_search_results"}

\* api_locking::LockAction: no locking required, or acquire for a resource id
NotApplicable == [type |-> "NotApplicable"]
Hold(input) == [type |-> "Hold", input |-> input]

\* Report generation holding a lock on the merchant's report.
MutLockActionOf(handler) ==
    IF handler \in {"generate_refund_report", "generate_dispute_report",
                    "generate_payment_report"}
    THEN Hold("report") ELSE NotApplicable

\* The lock action each handler passes to api::server_wrap.
LockActionOf(handler) == NotApplicable

\* api::server_wrap's locking step: the locks acquired for a lock action.
perform_locking_action(action) ==
    IF action.type = "Hold" THEN {action.input} ELSE {}

\* enum SearchIndex
SearchIndex == {"PaymentAttempts", "PaymentIntents", "Refunds", "Disputes"}

\* enum Permission: the permissions of the index-permission table, the one the
\* routes require of the token, and one that opens nothing.
Permissions ==
    {"PaymentRead", "PaymentWrite", "RefundRead", "RefundWrite", "DisputeRead",
     "DisputeWrite", "Analytics"}

\* consts::opensearch::OPENSEARCH_INDEX_PERMISSIONS: &[(SearchIndex, &[Permission])]
OPENSEARCH_INDEX_PERMISSIONS ==
    << <<"PaymentAttempts", <<"PaymentRead", "PaymentWrite">> >>,
       <<"PaymentIntents", <<"PaymentRead", "PaymentWrite">> >>,
       <<"Refunds", <<"RefundRead", "RefundWrite">> >>,
       <<"Disputes", <<"DisputeRead", "DisputeWrite">> >> >>

\* The tables the routes are examined under: the constant above, and one in
\* which an index has two entries, one has an entry without permissions and
\* one has none.
IndexPermissionTables ==
    {OPENSEARCH_INDEX_PERMISSIONS,
     << <<"PaymentAttempts", <<"PaymentRead">> >>,
        <<"Refunds", << >> >>,
        <<"PaymentAttempts", <<"PaymentWrite", "Analytics">> >>,
        <<"Disputes", <<"DisputeRead", "DisputeWrite">> >> >>}

\* RoleInfo::from_role_id(..) then get_permissions_set(): the permissions of
\* the caller's role, or the failure to resolve the role.
RoleInfos == {Ok(permissions) : permissions \in SUBSET Permissions}
                 \cup {Err([kind |-> "InternalServerError"])}
NoRoleInfo == Err([kind |-> "NotResolved"])

\* What the analytics core answers once a handler calls it.
CoreOutcomes == {Ok("Json"), Err([kind |-> "UnknownError"])}
SearchOutcomes ==
    {Ok("Json"), Err([kind |-> "ConnectionError"]), Err([kind |-> "ResponseError"])}

\* perm.iter().any(|p| permissions.contains(p))
AnyPermission(perm, permissions) ==
    \E k \in 1 .. Len(perm) : perm[k] \in permissions

\* Every index of the table taken for accessible.
MutAccessibleIndexes(table, permissions) ==
    [k \in 1 .. Len(table) |-> table[k][1]]

\* get_global_search_results: OPENSEARCH_INDEX_PERMISSIONS.iter()
\*   .filter(|(_, perm)| perm.iter().any(|p| permissions.contains(p)))
\*   .map(|(i, _)| *i).collect()
AccessibleIndexes(table, permissions) ==
    LET kept == SelectSeq(table, LAMBDA entry : AnyPermission(entry[2], permissions))
    IN  [k \in 1 .. Len(kept) |-> kept[k][1]]

\* The index's first entry alone consulted, whatever it lists.
MutFindPermittedEntry(table, index, permissions) ==
    LET entries == SelectSeq(table, LAMBDA entry : entry[1] = index)
    IN  IF entries # << >> THEN Some(entries[1]) ELSE None

\* get_search_results: OPENSEARCH_INDEX_PERMISSIONS.iter()
\*   .filter(|(ind, _)| *ind == index)
\*   .find(|i| i.1.iter().any(|p| permissions.contains(p)))
FindPermittedEntry(table, index, permissions) ==
    LET entries == SelectSeq(table, LAMBDA entry : entry[1] = index)
        found == SelectSeq(entries, LAMBDA i : AnyPermission(i[2], permissions))
    IN  IF found # << >> THEN Some(found[1]) ELSE None

\* The closure of get_search_results: what it searched and what it returned.
get_search_results(table, role_info, index, search_outcome) ==
    IF ~role_info.ok
    THEN [searched |-> None, served |-> Err([kind |-> "UnknownError"])]
    ELSE IF FindPermittedEntry(table, index, role_info.val) = None
    THEN [searched |-> None,
          served |-> Err([kind |-> "IndexAccessNotPermittedError", index |-> index])]
    ELSE [searched |-> Some(<<index>>), served |-> search_outcome]

\* The closure of get_global_search_results.
get_global_search_results(table, role_info, search_outcome) ==
    IF ~role_info.ok
    THEN [searched |-> None, served |-> Err([kind |-> "UnknownError"])]
    ELSE [searched |-> Some(AccessibleIndexes(table, role_info.val)),
          served |-> search_outcome]

NoCall == [handler |-> "none", index |-> None, role_info |-> NoRoleInfo]

AnIdle ==
    /\ call = NoCall
    /\ lock_action = NotApplicable
    /\ acquired = {}
    /\ searched = None
    /\ served = Err([kind |-> "NotServed"])

RecInit ==
    /\ connector_auth_type \in ConnectorAuthType
    /\ payment = [status |-> "Pending", response |-> Err(DefaultErrorResponse)]
    /\ refund = [status |-> "Charged", response |-> Err(DefaultErrorResponse)]
    /\ item = NoItem
    /\ wire = NoWire
    /\ resp = NoResp
    /\ is_auth_only = FALSE
    /\ op = "Idle"

FnIdle ==
    /\ fn = "none"
    /\ ret = "none"

Init ==
    /\ RecInit
    /\ FnIdle
    /\ DbIdle
    /\ KvIdle
    /\ AnIdle
    /\ index_permissions = OPENSEARCH_INDEX_PERMISSIONS
    /\ args = [is_auth_only |-> FALSE, status |-> "Pending",
               native |-> AuthorizedotnetPaymentStatusDefault,
               sync |-> "GeneralError", prior |-> Err(DefaultErrorResponse)]

\* ---------------------------------------------------------------- actions
Built(flow, it, result) ==
    /\ op = "Idle"
    /\ item' = it
    /\ wire' = result
    /\ resp' = NoResp
    /\ is_auth_only' = FALSE
    /\ op' = flow
    /\ UNCHANGED <<connector_auth_type, payment, refund, fnvars, dbvars, kvvars, anvars>>

AuthorizeBuild ==
    \E pm \in PaymentMethods, cm \in CaptureMethods, money \in Money :
        LET it == [flow |-> "Authorize",
                   request |-> [payment_method_data |-> pm, capture_method |-> cm,
                                amount |-> money.amount, currency |-> money.currency]]
        IN  Built("AuthorizeBuild", it, BuildAuthorize(RouterData(payment, it)))

\* The capture request the flow constructs for the Build: its
\* connector_transaction_id is not optional, so a capture for which no prior
\* connector transaction id is known is refused before the Build.
PaymentsCaptureData(prior, amount) ==
    IF IsSome(prior)
    THEN Ok([connector_transaction_id |-> Unwrap(prior), amount |-> amount])
    ELSE Err([kind |-> "MissingRequiredField", field_name |-> "connector_transaction_id"])

CaptureBuild ==
    \E prior \in {None} \cup {Some(t) : t \in TransIds}, amount \in Amounts :
        LET request == PaymentsCaptureData(prior, amount)
            it == [flow |-> "Capture", request |-> request.val]
        IN  IF request.ok
            THEN Built("CaptureBuild", it, BuildCapture(RouterData(payment, it)))
            ELSE Built("CaptureRefused", [flow |-> "Capture"], request)

VoidBuild ==
    \E id \in TransIds :
        LET it == [flow |-> "Void",
                   request |-> [connector_transaction_id |-> id]]
        IN  Built("VoidBuild", it, BuildVoid(RouterData(payment, it)))

RefundBuild ==
    \E md \in MetadataInputs \cup
              (IF payment.response.ok THEN {payment.response.val.connector_metadata}
               ELSE {}),
       id \in TransIds, money \in Money :
        LET it == [flow |-> "Execute",
                   request |-> [connector_metadata |-> md, refund_amount |-> money.amount,
                                currency |-> money.currency,
                                connector_transaction_id |-> id,
                                connector_refund_id |-> None]]
        IN  Built("RefundBuild", it, BuildRefund(RouterData(refund, it)))

\* The refund-sync Build reads connector_refund_id alone; the other fields of
\* the refund request are held fixed.
RSyncBuild ==
    \E rid \in {None} \cup {Some(t) : t \in TransIds}, id \in {"t1"},
       amount \in {1000}, currency \in {"USD"} :
        LET it == [flow |-> "RSync",
                   request |-> [connector_metadata |-> None, refund_amount |-> amount,
                                currency |-> currency, connector_transaction_id |-> id,
                                connector_refund_id |-> rid]]
        IN  Built("RSyncBuild", it, BuildRSync(RouterData(refund, it)))

PSyncBuild ==
    LET it == [flow |-> "PSync", request |-> [capture_method |-> None]]
    IN  Built("PSyncBuild", it, BuildPSync(RouterData(payment, it)))

\* The authorize/capture/void Parse of one wire response.
PaymentsParsed(flow, r, h, flag) ==
    LET result == ParsePayments([response |-> r, data |-> RouterData(payment, item),
                                 http_code |-> h], flag)
    IN  /\ result.ok
        /\ payment' = Persisted(result.val)
        /\ resp' = [response |-> r, http_code |-> h]
        /\ is_auth_only' = flag
        /\ op' = flow
        /\ UNCHANGED <<connector_auth_type, refund, item, wire, fnvars, dbvars, kvvars, anvars>>

AuthorizeParse ==
    /\ Sent("AuthorizeBuild")
    /\ \E r \in TransactionResponses, h \in HttpCodes :
           PaymentsParsed("AuthorizeParse", r, h, IsAuthOnly(item))

CaptureParse ==
    /\ Sent("CaptureBuild")
    /\ \E r \in TransactionResponses, h \in HttpCodes, flag \in BOOLEAN :
           PaymentsParsed("CaptureParse", r, h, flag)

VoidParse ==
    /\ Sent("VoidBuild")
    /\ \E r \in TransactionResponses, h \in HttpCodes, flag \in BOOLEAN :
           PaymentsParsed("VoidParse", r, h, flag)

RefundParse ==
    /\ Sent("RefundBuild")
    /\ \E r \in TransactionResponses, h \in HttpCodes :
           LET result == ParseRefund([response |-> r, data |-> RouterData(refund, item),
                                      http_code |-> h])
           IN  /\ result.ok
               /\ refund' = Persisted(result.val)
               /\ resp' = [response |-> r, http_code |-> h]
               /\ op' = "RefundParse"
               /\ UNCHANGED <<connector_auth_type, payment, item, wire, is_auth_only, fnvars, dbvars, kvvars, anvars>>

RSyncParse ==
    /\ Sent("RSyncBuild")
    /\ \E r \in SyncResponses, h \in HttpCodes :
           LET result == ParseRSync([response |-> r, data |-> RouterData(refund, item),
                                     http_code |-> h])
           IN  /\ result.ok
               /\ refund' = Persisted(result.val)
               /\ resp' = [response |-> r, http_code |-> h]
               /\ op' = "RSyncParse"
               /\ UNCHANGED <<connector_auth_type, payment, item, wire, is_auth_only, fnvars, dbvars, kvvars, anvars>>

PSyncParse ==
    /\ Sent("PSyncBuild")
    /\ \E r \in SyncResponses, h \in HttpCodes :
           LET result == ParsePSync([response |-> r, data |-> RouterData(payment, item),
                                     http_code |-> h])
           IN  /\ result.ok
               /\ payment' = Persisted(result.val)
               /\ resp' = [response |-> r, http_code |-> h]
               /\ op' = "PSyncParse"
               /\ UNCHANGED <<connector_auth_type, refund, item, wire, is_auth_only, fnvars, dbvars, kvvars, anvars>>

\* The operation ends: its transient record is dropped, the persisted fields stay.
Complete ==
    /\ op # "Idle"
    /\ item' = NoItem
    /\ wire' = NoWire
    /\ resp' = NoResp
    /\ is_auth_only' = FALSE
    /\ op' = "Idle"
    /\ UNCHANGED <<connector_auth_type, payment, refund, fnvars, dbvars, kvvars, anvars>>

Next ==
    \/ AuthorizeBuild
    \/ AuthorizeParse
    \/ CaptureBuild
    \/ CaptureParse
    \/ VoidBuild
    \/ VoidParse
    \/ RefundBuild
    \/ RefundParse
    \/ RSyncBuild
    \/ RSyncParse
    \/ PSyncBuild
    \/ PSyncParse
    \/ Complete

Spec == Init /\ [][Next]_vars

\* --------------------------------------- the status functions on their own
\* The prior response of a payment record handed to the payment-sync Build:
\* Result<PaymentsResponseData, ErrorResponse>, with the ResponseId variants
\* and a PaymentsResponseData variant other than TransactionResponse.
PriorResponses ==
    {Err(DefaultErrorResponse),
     Ok(TransactionResponse("t1", None)),
     Ok([TransactionResponse("t1", None) EXCEPT !.resource_id = [type |-> "NoResponseId"]]),
     Ok([type |-> "SessionResponse"])}

FnInit ==
    /\ RecInit
    /\ FnIdle
    /\ DbIdle
    /\ KvIdle
    /\ AnIdle
    /\ index_permissions = OPENSEARCH_INDEX_PERMISSIONS
    /\ args \in [is_auth_only : BOOLEAN, status : AttemptStatus,
                 native : AuthorizedotnetPaymentStatus \cup {"Omitted"},
                 sync : SyncStatus, prior : PriorResponses]

Applied(name, result) ==
    /\ fn' = name
    /\ ret' = result
    /\ UNCHANGED <<args, recvars, dbvars, kvvars, anvars>>

\* The native status a response carries, the #[default] standing in for an omitted one.
NativeOrDefault(native) ==
    IF native = "Omitted" THEN AuthorizedotnetPaymentStatusDefault ELSE native

ApplyGetPaymentStatus ==
    Applied("get_payment_status", get_payment_status(args.is_auth_only, args.status))

ApplyAttemptStatusFromPaymentStatus ==
    Applied("AttemptStatusFromPaymentStatus",
            AttemptStatusFromPaymentStatus(NativeOrDefault(args.native)))

ApplyRefundStatusFromPaymentStatus ==
    Applied("RefundStatusFromPaymentStatus",
            RefundStatusFromPaymentStatus(NativeOrDefault(args.native)))

ApplyRefundStatusFromSyncStatus ==
    Applied("RefundStatusFromSyncStatus", RefundStatusFromSyncStatus(args.sync))

ApplyAttemptStatusFromSyncStatus ==
    Applied("AttemptStatusFromSyncStatus", AttemptStatusFromSyncStatus(args.sync))

ApplyBuildPSync ==
    Applied("BuildPSync",
            BuildPSync([response |-> args.prior,
                        connector_auth_type |-> connector_auth_type]))

FnNext ==
    \/ ApplyBuildPSync
    \/ ApplyGetPaymentStatus
    \/ ApplyAttemptStatusFromPaymentStatus
    \/ ApplyRefundStatusFromPaymentStatus
    \/ ApplyRefundStatusFromSyncStatus
    \/ ApplyAttemptStatusFromSyncStatus

SpecFn == FnInit /\ [][FnNext]_vars

\* ------------------------------------------- the MockDb under concurrent tasks
\* The storage operations a task may run, each a sequence of table accesses:
\* a row inserted into one table, one table read, and the two cross-table
\* operations on a payment (its intent and its attempt written, or read, one
\* table after the other).
StorageOperations ==
    {<<[kind |-> kind, table |-> table]>> :
         kind \in {"insert", "find"}, table \in MockDbTables}
    \cup {<<[kind |-> kind, table |-> "payment_intents"],
            [kind |-> kind, table |-> "payment_attempts"]>> : kind \in {"insert", "find"}}

\* A task starts its storage operation.
DbStart(t) ==
    /\ todo[t] = None
    /\ \E operation \in StorageOperations :
           todo' = [todo EXCEPT ![t] = Some(operation)]
    /\ UNCHANGED <<locked, holding, tables, seen, recvars, fnvars, kvvars, anvars>>

\* self.<table>.lock().await: the task takes the guard of the table of its
\* next access once that table's mutex is unlocked.
DbLock(t) ==
    /\ IsSome(todo[t])
    /\ Unwrap(todo[t]) # <<>>
    /\ holding[t] = NoTable
    /\ LET table == Head(Unwrap(todo[t])).table
       IN  /\ ~locked[MutexOf(table)]
           /\ locked' = [locked EXCEPT ![MutexOf(table)] = TRUE]
           /\ holding' = [holding EXCEPT ![t] = table]
    /\ UNCHANGED <<todo, tables, seen, recvars, fnvars, kvvars, anvars>>

\* Every access the operation has left made under the one guard held: a
\* cross-table operation run as a transaction.
MutDbAccess(t) ==
    /\ holding[t] # NoTable
    /\ LET left == Unwrap(todo[t])
           touched(kind) ==
               {left[i].table : i \in {j \in 1 .. Len(left) : left[j].kind = kind}}
       IN  /\ tables' = [table \in MockDbTables |->
                            IF table \in touched("insert")
                            THEN tables[table] \cup {t} ELSE tables[table]]
           /\ seen' = [seen EXCEPT ![t] =
                           @ \cup {<<table, tables[table]>> : table \in touched("find")}]
           /\ locked' = [locked EXCEPT ![MutexOf(holding[t])] = FALSE]
    /\ holding' = [holding EXCEPT ![t] = NoTable]
    /\ todo' = [todo EXCEPT ![t] = Some(<<>>)]
    /\ UNCHANGED <<recvars, fnvars, kvvars, anvars>>

\* The access under the guard, which is dropped when the access returns: an
\* insert pushes the task's row, a find reads the table's rows.
DbAccess(t) ==
    /\ holding[t] # NoTable
    /\ LET table == holding[t]
           access == Head(Unwrap(todo[t]))
       IN  /\ tables' = IF access.kind = "insert"
                        THEN [tables EXCEPT ![table] = @ \cup {t}]
                        ELSE tables
           /\ seen' = IF access.kind = "find"
                      THEN [seen EXCEPT ![t] = @ \cup {<<table, tables[table]>>}]
                      ELSE seen
           /\ locked' = [locked EXCEPT ![MutexOf(table)] = FALSE]
    /\ holding' = [holding EXCEPT ![t] = NoTable]
    /\ todo' = [todo EXCEPT ![t] = Some(Tail(Unwrap(todo[t])))]
    /\ UNCHANGED <<recvars, fnvars, kvvars, anvars>>

DbNext ==
    \/ \E t \in Tasks : DbStart(t)
    \/ \E t \in Tasks : DbLock(t)
    \/ \E t \in Tasks : DbAccess(t)

SpecDb == Init /\ [][DbNext]_vars

\* ---------------------------------------------- the key/value store helper
\* serde_json::from_slice over the stored bytes of the model
from_slice(bytes) ==
    CASE bytes = "{\"id\":\"e1\"}" -> Ok(JObj([id |-> JStr("e1")]))
      [] bytes = "{\"token\":\"a1\"}" -> Ok(JObj([token |-> JStr("a1")]))
      [] OTHER -> Err([kind |-> "Syntax"])

\* ByteSliceExt::parse_struct::<T>: the bytes decoded as JSON and deserialized
\* into T, the type that type_name names.
parse_struct(bytes, type_name) ==
    LET value == from_slice(bytes)
        failure == Err([kind |-> "StructParseFailure", type_name |-> type_name])
    IN  IF ~value.ok THEN failure
        ELSE CASE type_name = "EphemeralKey" ->
                    IF HasStr(value.val, "id")
                    THEN Ok([id |-> value.val.f["id"].s]) ELSE failure
               [] type_name = "AccessToken" ->
                    IF HasStr(value.val, "token")
                    THEN Ok([token |-> value.val.f["token"].s]) ELSE failure

\* db.get_key(key): the stored bytes, NotFound for a key that holds nothing,
\* or the failure of the lookup itself.
GetKeyOutcomes(key) ==
    (IF IsSome(redis[key]) THEN {Ok(Unwrap(redis[key]))}
     ELSE {Err([kind |-> "NotFound"])})
    \cup {Err([kind |-> "GetFailed"])}

\* Bytes that do not parse reported as a missing key.
MutGetAndDeserializeKey(lookup, type_name) ==
    IF ~lookup.ok THEN lookup
    ELSE LET parsed == parse_struct(lookup.val, type_name)
         IN  IF parsed.ok THEN parsed
             ELSE Err([kind |-> "NotFound"])

\* pub async fn get_and_deserialize_key, lookup being the result of
\* db.get_key(key).await
get_and_deserialize_key(lookup, type_name) ==
    IF ~lookup.ok THEN lookup
    ELSE LET parsed == parse_struct(lookup.val, type_name)
         IN  IF parsed.ok THEN parsed
             ELSE Err([kind |-> "JsonDeserializationFailed"])

SetKey ==
    /\ \E key \in Keys, bytes \in StoredBytes :
           redis' = [redis EXCEPT ![key] = Some(bytes)]
    /\ UNCHANGED <<fetched, recvars, fnvars, dbvars, anvars>>

DeleteKey ==
    /\ \E key \in Keys :
           /\ IsSome(redis[key])
           /\ redis' = [redis EXCEPT ![key] = None]
    /\ UNCHANGED <<fetched, recvars, fnvars, dbvars, anvars>>

GetAndDeserializeKey ==
    /\ \E key \in Keys, type_name \in TypeNames :
           \E lookup \in GetKeyOutcomes(key) :
               fetched' = [key |-> key, type_name |-> type_name, lookup |-> lookup,
                           result |-> get_and_deserialize_key(lookup, type_name)]
    /\ UNCHANGED <<redis, recvars, fnvars, dbvars, anvars>>

KvNext ==
    \/ SetKey
    \/ DeleteKey
    \/ GetAndDeserializeKey

SpecKv == Init /\ [][KvNext]_vars

\* ------------------------------------------------------ the analytics routes
\* The analytics routes, served one request at a time under one of the tables.
AnInit ==
    /\ RecInit
    /\ FnIdle
    /\ DbIdle
    /\ KvIdle
    /\ AnIdle
    /\ index_permissions \in IndexPermissionTables
    /\ connector_auth_type.type = "BodyKey"
    /\ args = [is_auth_only |-> FALSE, status |-> "Pending",
               native |-> AuthorizedotnetPaymentStatusDefault,
               sync |-> "GeneralError", prior |-> Err(DefaultErrorResponse)]

\* api::server_wrap(flow, state, &req, payload, closure, auth, lock_action) for
\* an authenticated request: the locking step, then the handler's closure.
server_wrap(handler, index, role_info, result) ==
    /\ call' = [handler |-> handler, index |-> index, role_info |-> role_info]
    /\ lock_action' = LockActionOf(handler)
    /\ acquired' = perform_locking_action(LockActionOf(handler))
    /\ searched' = result.searched
    /\ served' = result.served
    /\ UNCHANGED <<index_permissions, recvars, fnvars, dbvars, kvvars>>

\* A metrics, filters, info, event-log or report route.
ServeAnalytics ==
    /\ call = NoCall
    /\ \E handler \in Handlers \ SearchHandlers, outcome \in CoreOutcomes :
           server_wrap(handler, None, NoRoleInfo, [searched |-> None, served |-> outcome])

ServeSearch ==
    /\ call = NoCall
    /\ \E role_info \in RoleInfos, index \in SearchIndex, outcome \in SearchOutcomes :
           server_wrap("get_search_results", Some(index), role_info,
                       get_search_results(index_permissions, role_info, index, outcome))

ServeGlobalSearch ==
    /\ call = NoCall
    /\ \E role_info \in RoleInfos, outcome \in SearchOutcomes :
           server_wrap("get_global_search_results", None, role_info,
                       get_global_search_results(index_permissions, role_info, outcome))

\* The response is sent and the request's locks, if any, are released.
Responded ==
    /\ call # NoCall
    /\ call' = NoCall
    /\ lock_action' = NotApplicable
    /\ acquired' = {}
    /\ searched' = None
    /\ served' = Err([kind |-> "NotServed"])
    /\ UNCHANGED <<index_permissions, recvars, fnvars, dbvars, kvvars>>

AnNext ==
    \/ ServeAnalytics
    \/ ServeSearch
    \/ ServeGlobalSearch
    \/ Responded

SpecAn == AnInit /\ [][AnNext]_vars

\* ------------------------------------------- the Parse conversions on their own
\* The records a Parse may be handed: any status, any prior response.
ParseRecords ==
    [connector_auth_type : {auth \in ConnectorAuthType : auth.type = "BodyKey"},
     request : {[capture_method |-> None]},
     response : PriorResponses, status : AttemptStatus]

\* No Parse reads the credentials: they are held fixed.
ParseInit ==
    /\ Init
    /\ connector_auth_type.type = "BodyKey"

\* A Parse applied to a response for a record: the input is kept beside the result.
ParseApplied(name, it, result) ==
    /\ fn' = name
    /\ ret' = [item |-> it, result |-> result]
    /\ UNCHANGED <<args, recvars, dbvars, kvvars, anvars>>

ApplyParsePayments ==
    /\ fn = "none"
    /\ \E data \in ParseRecords, r \in TransactionResponses, h \in HttpCodes,
          flag \in BOOLEAN :
           LET it == [data |-> data, http_code |-> h, is_auth_only |-> flag, response |-> r]
           IN  ParseApplied("ParsePayments", it, ParsePayments(it, flag))

ApplyParseRefund ==
    /\ fn = "none"
    /\ \E data \in ParseRecords, r \in TransactionResponses, h \in HttpCodes :
           LET it == [data |-> data, http_code |-> h, response |-> r]
           IN  ParseApplied("ParseRefund", it, ParseRefund(it))

ApplyParseRSync ==
    /\ fn = "none"
    /\ \E data \in ParseRecords, r \in SyncResponses, h \in HttpCodes :
           LET it == [data |-> data, http_code |-> h, response |-> r]
           IN  ParseApplied("ParseRSync", it, ParseRSync(it))

ApplyParsePSync ==
    /\ fn = "none"
    /\ \E data \in ParseRecords, r \in SyncResponses, h \in HttpCodes :
           LET it == [data |-> data, http_code |-> h, response |-> r]
           IN  ParseApplied("ParsePSync", it, ParsePSync(it))

\* The result is handed back to the caller.
ParseReturned ==
    /\ fn # "none"
    /\ fn' = "none"
    /\ ret' = "none"
    /\ UNCHANGED <<args, recvars, dbvars, kvvars, anvars>>

ParseNext ==
    \/ ApplyParsePayments
    \/ ApplyParseRefund
    \/ ApplyParseRSync
    \/ ApplyParsePSync
    \/ ParseReturned

SpecParse == ParseInit /\ [][ParseNext]_vars

\* ================================================================= claims
PaymentsParseOps == {"AuthorizeParse", "CaptureParse", "VoidParse"}
BuildOps ==
    {"AuthorizeBuild", "CaptureBuild", "VoidBuild", "RefundBuild", "RSyncBuild",
     "PSyncBuild"}

\* The native error array yields no error payload: it is absent or empty.
NoErrorEntries(errors) == ~IsSome(errors) \/ Len(Unwrap(errors)) = 0

\* C1: a refund-sync Parse of a native sync state other than
\* refundSettledSuccessfully and refundPendingSettlement (the catch-all of the
\* refund mapping) leaves the refund with status Pending, never Failure.
C1_RefundSyncCatchAllIsPending ==
    (op = "RSyncParse"
     /\ resp.response.transaction.transaction_status
            \notin {"RefundSettledSuccessfully", "RefundPendingSettlement"})
    => (refund.response.ok /\ refund.response.val.refund_status = "Pending")

\* Progress of a status towards a terminal one: Pending, then Authorized, then
\* the terminal statuses.
AttemptRank(status) ==
    CASE status = "Pending" -> 0
      [] status = "Authorized" -> 1
      [] OTHER -> 2
RefundRank(status) == IF status = "Pending" THEN 0 ELSE 1

\* C2: a payment-sync or refund-sync Parse of a record whose status is terminal
\* never writes an earlier status into the record.
C2_SyncNeverRegressesTerminal ==
    [][/\ (op' = "PSyncParse" /\ AttemptRank(payment.status) = 2)
          => AttemptRank(payment'.status) >= AttemptRank(payment.status)
       /\ (op' = "RSyncParse" /\ refund.response.ok
           /\ RefundRank(refund.response.val.refund_status) = 1)
          => (refund'.response.ok
              /\ RefundRank(refund'.response.val.refund_status) = 1)]_vars

\* C3: get_payment_status changes the status handed to it exactly when
\* is_auth_only is true and the status is Charged, and then returns Authorized;
\* every other combination of flag and status is returned unchanged.
C3_GetPaymentStatusDowngrade ==
    fn = "get_payment_status"
    => /\ (ret # args.status) <=> (args.is_auth_only /\ args.status = "Charged")
       /\ (args.is_auth_only /\ args.status = "Charged") => ret = "Authorized"

C3_Witness ==
    /\ fn = "get_payment_status"
    /\ args.is_auth_only
    /\ args.status = "Charged"
    /\ ret = "Authorized"

\* C4: after an authorize/capture/void Parse the status and the response agree:
\* status Failure comes with an error payload (no resource id), status Charged or
\* Authorized comes with a success payload, and a declined or errored native
\* status never comes with a success payload.
C4_StatusAgreesWithResponse ==
    op \in PaymentsParseOps
    => /\ payment.status = "Failure" => ~payment.response.ok
       /\ payment.status \in {"Charged", "Authorized"} => payment.response.ok
       /\ resp.response.transaction_response.response_code \in {"Declined", "Error"}
          => ~payment.response.ok

\* The refund request carries the connector_metadata the payment record holds.
MetadataThreaded ==
    /\ op = "RefundBuild"
    /\ payment.response.ok
    /\ IsSome(payment.response.val.connector_metadata)
    /\ item.request.connector_metadata = payment.response.val.connector_metadata

\* C5: a refund Build whose connector_metadata is the metadata an authorize Parse
\* produced from a response with an account number succeeds: the metadata decodes
\* into the credit-card payment details and they are the wire request's payment.
C5_MetadataRoundTrip ==
    MetadataThreaded
    => LET decoded == parse_value(Unwrap(item.request.connector_metadata))
       IN  /\ decoded.ok
           /\ decoded.val.variant = "CreditCard"
           /\ decoded.val.card_number \in AccountNumbers
           /\ wire.ok
           /\ wire.val.create_transaction_request.transaction_request.payment
                  = decoded.val

C5_Witness ==
    /\ MetadataThreaded
    /\ wire.ok
    /\ wire.val.create_transaction_request.transaction_request.payment.card_number
           = "XXXX1111"

C7_NativeStatusMapping ==
    fn = "AttemptStatusFromPaymentStatus"
    => /\ ret \in AttemptStatus
       /\ args.native = "Approved" => ret = "Charged"
       /\ args.native \in {"Declined", "Error"} => ret = "Failure"
       /\ args.native \in {"HeldForReview", "Omitted"} => ret = "Pending"

C7_Witness ==
    /\ fn = "AttemptStatusFromPaymentStatus"
    /\ args.native = "Error"
    /\ ret = "Failure"

\* The wire request of the operation in progress.
WireTransactionRequest == wire.val.create_transaction_request.transaction_request

\* The response parsed last is approved and carries no error entry.
ApprovedWithoutErrors ==
    /\ resp.response.transaction_response.response_code = "Approved"
    /\ NoErrorEntries(resp.response.transaction_response.errors)

\* C8: an authorize with capture method Manual is built as authOnlyTransaction
\* and, answered approved without error entries, parsed (is_auth_only true) to
\* status Authorized with the response's transaction id as resource id and no
\* error; with the capture method absent the same answer is parsed to Charged.
C8_AuthorizeEndToEnd ==
    /\ (op = "AuthorizeBuild" /\ wire.ok
        /\ item.request.capture_method = Some("Manual"))
       => WireTransactionRequest.transaction_type = "authOnlyTransaction"
    /\ (op = "AuthorizeParse" /\ ApprovedWithoutErrors)
       => /\ payment.response.ok
          /\ payment.response.val.resource_id
                 = [type |-> "ConnectorTransactionId",
                    id |-> resp.response.transaction_response.transaction_id]
          /\ item.request.capture_method = Some("Manual")
             => /\ WireTransactionRequest.transaction_type = "authOnlyTransaction"
                /\ is_auth_only
                /\ payment.status = "Authorized"
          /\ item.request.capture_method = None
             => payment.status = "Charged"

C8_Witness ==
    /\ op = "AuthorizeParse"
    /\ ApprovedWithoutErrors
    /\ item.request.capture_method = Some("Manual")
    /\ item.request.payment_method_data.type = "Card"
    /\ payment.status = "Authorized"
    /\ payment.response.ok

\* C9: a refund Build whose request carries no connector_metadata fails with the
\* missing-required-field error naming connector_metadata and produces no wire
\* request.
C9_RefundWithoutMetadataFails ==
    (op = "RefundBuild" /\ item.request.connector_metadata = None)
    => wire = Err([kind |-> "MissingRequiredField", field_name |-> "connector_metadata"])

C9_Witness ==
    /\ op = "RefundBuild"
    /\ item.request.connector_metadata = None
    /\ connector_auth_type.type = "BodyKey"
    /\ ~wire.ok

\* C10 as stated: every Build with credentials of a variant other than BodyKey
\* fails with FailedToObtainAuthType.
C10_EveryBuildFailsWithAuthError ==
    (op \in BuildOps /\ connector_auth_type.type # "BodyKey")
    => wire = Err([kind |-> "FailedToObtainAuthType"])

\* A validation the Build of the operation in progress performs before it
\* extracts the credentials fails.
EarlierValidationFails ==
    \/ op = "AuthorizeBuild"
       /\ ~PaymentDetailsFromPaymentMethod(item.request.payment_method_data).ok
    \/ op = "RefundBuild" /\ item.request.connector_metadata = None
    \/ op = "RSyncBuild" /\ item.request.connector_refund_id = None
    \/ op = "PSyncBuild" /\ payment.response.ok
       /\ ~get_connector_transaction_id(payment.response.val.resource_id).ok

\* The credentials a successful Build put on the wire.
WireCredentials ==
    IF op \in {"RSyncBuild", "PSyncBuild"}
    THEN wire.val.get_transaction_details_request.merchant_authentication
    ELSE wire.val.create_transaction_request.merchant_authentication

\* C10, amended: every Build with credentials of a variant other than BodyKey
\* fails, with FailedToObtainAuthType unless a validation that the Build performs
\* before it extracts the credentials fails first, whose error is then the one
\* reported; a Build that succeeds carries name = key1 and transaction_key =
\* api_key of the BodyKey credentials.
C10_BuildFailsWithoutBodyKey ==
    op \in BuildOps
    => /\ connector_auth_type.type # "BodyKey"
          => /\ ~wire.ok
             /\ (wire.err.kind = "FailedToObtainAuthType") <=> ~EarlierValidationFails
       /\ wire.ok
          => /\ connector_auth_type.type = "BodyKey"
             /\ WireCredentials = [name |-> connector_auth_type.key1,
                                   transaction_key |-> connector_auth_type.api_key]

C10_Witness ==
    /\ op = "CaptureBuild"
    /\ connector_auth_type.type = "SignatureKey"
    /\ wire = Err([kind |-> "FailedToObtainAuthType"])

\* ------------------------------------------------------------ C11 .. C20
ParseOps == PaymentsParseOps \cup {"RefundParse", "RSyncParse", "PSyncParse"}

\* The record the operation in progress works on.
Record == IF op \in {"RefundBuild", "RefundParse", "RSyncBuild", "RSyncParse"}
          THEN refund ELSE payment

\* The response carries the identifier of the resource at the connector.
ResourceIdPresent(response) ==
    /\ response.ok
    /\ IF op \in {"RefundParse", "RSyncParse"}
       THEN response.val.connector_refund_id \in TransIds
       ELSE /\ response.val.resource_id.type = "ConnectorTransactionId"
            /\ response.val.resource_id.id \in TransIds

\* The response carries a normalised error payload.
ErrorPresent(response) ==
    /\ ~response.ok
    /\ response.err.code \in {e.error_code : e \in ErrorMessage}

\* C11: after every Parse (authorize/capture/void, refund, payment-sync,
\* refund-sync) the record's response carries either the resource id or an
\* error payload: never both and never neither.
C11_SuccessErrorExclusive ==
    op \in ParseOps
    => ResourceIdPresent(Record.response) # ErrorPresent(Record.response)

\* A capture response that carries both a transaction id and native errors is
\* parsed into an error payload alone.
C11_Witness ==
    /\ op = "CaptureParse"
    /\ ~NoErrorEntries(resp.response.transaction_response.errors)
    /\ resp.response.transaction_response.transaction_id \in TransIds
    /\ ErrorPresent(payment.response)
    /\ ~ResourceIdPresent(payment.response)

\* C12: the payment Parse and the refund Parse build the error payload from
\* the first entry of a non-empty native error array (code = errorCode,
\* message = errorText, reason absent) with status_code = the call's http_code;
\* an absent or empty array yields no error payload.
C12_ErrorFromFirstEntry ==
    op \in PaymentsParseOps \cup {"RefundParse"}
    => LET errors == resp.response.transaction_response.errors
       IN  IF NoErrorEntries(errors)
           THEN Record.response.ok
           ELSE Record.response =
                    Err([code |-> Unwrap(errors)[1].error_code,
                         message |-> Unwrap(errors)[1].error_text,
                         reason |-> None,
                         status_code |-> resp.http_code])

\* A refund response with two different error entries, carried by a call that
\* returned 400.
C12_Witness ==
    /\ op = "RefundParse"
    /\ LET errors == resp.response.transaction_response.errors
       IN  /\ IsSome(errors)
           /\ Len(Unwrap(errors)) = 2
           /\ Unwrap(errors)[1] # Unwrap(errors)[2]
    /\ resp.http_code = 400
    /\ ~refund.response.ok

\* C13: an authorize Build for a wallet whose issuer is not Google Pay fails
\* with NotImplemented and puts nothing on the wire; a wallet request that is
\* built carries the Google Pay payload of a Google Pay wallet, never another
\* payment payload.
C13_UnknownWalletNotImplemented ==
    (op = "AuthorizeBuild" /\ item.request.payment_method_data.type = "Wallet")
    => LET wallet_data == item.request.payment_method_data
       IN  /\ wallet_data.issuer_name # "GooglePay"
              => wire = Err([kind |-> "NotImplemented",
                             message |-> "Unknown Wallet in Payment Method"])
           /\ wire.ok
              => /\ wallet_data.issuer_name = "GooglePay"
                 /\ wire.val.create_transaction_request.transaction_request.payment
                        = Wallet("COMMON.GOOGLE.INAPP.PAYMENT",
                                 Base64Encode(Unwrap(wallet_data.token)))

\* An Apple Pay wallet with a token and usable credentials is refused.
C13_Witness ==
    /\ op = "AuthorizeBuild"
    /\ item.request.payment_method_data.type = "Wallet"
    /\ item.request.payment_method_data.issuer_name = "ApplePay"
    /\ IsSome(item.request.payment_method_data.token)
    /\ connector_auth_type.type = "BodyKey"
    /\ ~wire.ok

\* C14: the authorize Build puts authOnlyTransaction on the wire exactly when
\* the request's capture method is Manual, and authCaptureTransaction for every
\* other capture method and for none; the wire amount and currency code are the
\* request's amount and currency.
C14_AuthorizeTransactionType ==
    (op = "AuthorizeBuild" /\ wire.ok)
    => /\ (WireTransactionRequest.transaction_type = "authOnlyTransaction")
              <=> item.request.capture_method = Some("Manual")
       /\ (WireTransactionRequest.transaction_type = "authCaptureTransaction")
              <=> item.request.capture_method # Some("Manual")
       /\ WireTransactionRequest.amount = item.request.amount
       /\ WireTransactionRequest.currency_code = item.request.currency

\* An authorize request without a capture method, for 2500 EUR, is built.
C14_Witness ==
    /\ op = "AuthorizeBuild"
    /\ wire.ok
    /\ item.request.capture_method = None
    /\ item.request.amount = 2500
    /\ item.request.currency = "EUR"
    /\ WireTransactionRequest.transaction_type = "authCaptureTransaction"

C16_MetadataFromAccountNumber ==
    (op \in PaymentsParseOps /\ payment.response.ok)
    => LET account_number == resp.response.transaction_response.account_number
           metadata == payment.response.val.connector_metadata
       IN  /\ IsSome(metadata) <=> IsSome(account_number)
           /\ IsSome(account_number)
              => /\ Unwrap(metadata) =
                        JObj([creditCard |->
                                 JObj([cardNumber |-> JStr(Unwrap(account_number)),
                                       expirationDate |-> JStr("XXXX")])])
                 /\ parse_value(Unwrap(metadata))
                        = Ok(CreditCard(Unwrap(account_number), "XXXX", None))

\* A void response with an account number and no error entry is parsed.
C16_Witness ==
    /\ op = "VoidParse"
    /\ payment.response.ok
    /\ IsSome(resp.response.transaction_response.account_number)
    /\ IsSome(payment.response.val.connector_metadata)

\* C17: every MockDb table is behind its own exclusive guard: no two tasks
\* hold the guard of the same table, and a table whose guard no task holds is
\* unlocked whatever guards of other tables are held, so that tasks on
\* different tables proceed at the same time.
C17_TableGuardsExclusive ==
    /\ \A t1 \in Tasks, t2 \in Tasks :
           (t1 # t2 /\ holding[t1] # NoTable) => holding[t1] # holding[t2]
    /\ \A table \in MockDbTables :
           (\A t \in Tasks : holding[t] # table) => ~locked[MutexOf(table)]

\* Two tasks hold the guards of two different tables at the same time.
C17_Witness ==
    \E t1 \in Tasks, t2 \in Tasks :
        /\ holding[t1] = "payment_attempts"
        /\ holding[t2] = "refunds"

\* The tables whose rows the step changes.
TablesWritten == {table \in MockDbTables : tables'[table] # tables[table]}

\* C18: no cross-table operation of the MockDb is atomic: a step writes one
\* table at most and leaves that table unlocked, so an operation that writes
\* table A and then table B passes through a state, open to every other task,
\* in which A is updated and B is not.
C18_NoCrossTableAtomicity ==
    [][/\ Cardinality(TablesWritten) <= 1
       /\ \A table \in TablesWritten : ~locked'[MutexOf(table)]]_vars

\* Another task has read the intent table with the writer's row in it and then
\* the attempt table without it, the writer's second write still to come.
C18_Witness ==
    \E w \in Tasks, r \in Tasks :
        /\ w # r
        /\ todo[w] = Some(<<[kind |-> "insert", table |-> "payment_attempts"]>>)
        /\ <<"payment_intents", {w}>> \in seen[r]
        /\ <<"payment_attempts", {}>> \in seen[r]
        /\ w \in tables["payment_intents"]
        /\ w \notin tables["payment_attempts"]

\* C19: get_and_deserialize_key returns JsonDeserializationFailed when the key
\* holds bytes that do not parse as the requested type; a failed lookup (the
\* key not found, or the lookup failing) is returned unchanged, is never
\* JsonDeserializationFailed, and nothing is parsed for it.
C19_DeserializationErrorDistinct ==
    fetched # NoFetch
    => /\ (fetched.lookup.ok /\ ~parse_struct(fetched.lookup.val, fetched.type_name).ok)
          => fetched.result = Err([kind |-> "JsonDeserializationFailed"])
       /\ ~fetched.lookup.ok
          => /\ fetched.result = fetched.lookup
             /\ fetched.result # Err([kind |-> "JsonDeserializationFailed"])
       /\ fetched.result.ok
          => /\ fetched.lookup.ok
             /\ fetched.result = parse_struct(fetched.lookup.val, fetched.type_name)

\* The key holds well-formed JSON of another type than the one asked for.
C19_Witness ==
    /\ fetched # NoFetch
    /\ fetched.lookup = Ok("{\"id\":\"e1\"}")
    /\ fetched.type_name = "AccessToken"
    /\ fetched.result = Err([kind |-> "JsonDeserializationFailed"])

\* C20: every Build that succeeds writes the wire request's fields in the
\* declared order, whatever the input: merchantAuthentication before
\* transactionRequest inside createTransactionRequest; transactionType, amount,
\* currencyCode, payment for an authorize; transactionType, amount, refTransId
\* for a capture; transactionType, amount, currencyCode, payment, refTransId
\* for a refund.
C20_DeclaredFieldOrder ==
    (op \in {"AuthorizeBuild", "CaptureBuild", "VoidBuild", "RefundBuild"} /\ wire.ok)
    => LET body == SerializeCreateTransactionRequest(wire.val)
           envelope == ValueOf(body, "createTransactionRequest")
           request == ValueOf(envelope, "transactionRequest")
       IN  /\ KeysOf(body) = <<"createTransactionRequest">>
           /\ KeysOf(envelope) = <<"merchantAuthentication", "transactionRequest">>
           /\ op = "AuthorizeBuild"
              => KeysOf(request)
                     = <<"transactionType", "amount", "currencyCode", "payment">>
           /\ op = "CaptureBuild"
              => KeysOf(request) = <<"transactionType", "amount", "refTransId">>
           /\ op = "RefundBuild"
              => KeysOf(request)
                     = <<"transactionType", "amount", "currencyCode", "payment",
                         "refTransId">>

\* A refund request is built and serialized.
C20_Witness ==
    /\ op = "RefundBuild"
    /\ wire.ok
    /\ Len(ValueOf(ValueOf(SerializeCreateTransactionRequest(wire.val),
                           "createTransactionRequest"),
                   "transactionRequest")) = 5

\* ------------------------------------------------------------ C21 .. C30
\* C22: connector metadata that a payments Parse put into the record's
\* response stays there through a payment-sync Parse of the same record, so
\* that a later refund Build can replay it.
C22_MetadataSurvivesSync ==
    [][(/\ op' = "PSyncParse"
        /\ payment.response.ok
        /\ IsSome(payment.response.val.connector_metadata))
       => /\ payment'.response.ok
          /\ payment'.response.val.connector_metadata
                 = payment.response.val.connector_metadata]_vars

\* C23: the payment-sync mapping gives every one of the 9 native sync states
\* an attempt status: settledSuccessfully and capturedPendingSettlement are
\* Charged, declined AuthenticationFailed, voided Voided, couldNotVoid
\* VoidFailed, generalError Failure, and the remaining states
\* (refundSettledSuccessfully, refundPendingSettlement,
\* authorizedPendingCapture) Pending.
C23_PaymentSyncMapping ==
    fn = "AttemptStatusFromSyncStatus"
    => /\ args.sync \in SyncStatus
       /\ ret \in AttemptStatus
       /\ ret = CASE args.sync = "SettledSuccessfully" -> "Charged"
                  [] args.sync = "CapturedPendingSettlement" -> "Charged"
                  [] args.sync = "Declined" -> "AuthenticationFailed"
                  [] args.sync = "Voided" -> "Voided"
                  [] args.sync = "CouldNotVoid" -> "VoidFailed"
                  [] args.sync = "GeneralError" -> "Failure"
                  [] args.sync = "RefundSettledSuccessfully" -> "Pending"
                  [] args.sync = "RefundPendingSettlement" -> "Pending"
                  [] args.sync = "AuthorizedPendingCapture" -> "Pending"

\* The mapping applied to a state of the catch-all.
C23_Witness ==
    /\ fn = "AttemptStatusFromSyncStatus"
    /\ args.sync = "AuthorizedPendingCapture"
    /\ ret = "Pending"

\* The refund request in progress carries metadata that does not decode as
\* payment details.
UndecodableMetadata ==
    /\ op = "RefundBuild"
    /\ IsSome(item.request.connector_metadata)
    /\ ~parse_value(Unwrap(item.request.connector_metadata)).ok

\* C24 as stated: a refund Build whose connector_metadata is present but does
\* not decode as payment details fails with MissingRequiredField naming
\* payment_details.
C24_UndecodableMetadataNamesPaymentDetails ==
    UndecodableMetadata
    => wire = Err([kind |-> "MissingRequiredField", field_name |-> "payment_details"])

\* C24, amended: a refund Build whose connector_metadata is present but does
\* not decode as payment details always fails and never puts a payment payload
\* on the wire: with BodyKey credentials the error is MissingRequiredField
\* naming payment_details, with any other credentials it is
\* FailedToObtainAuthType, the credentials being extracted before the metadata
\* is decoded.
C24_UndecodableMetadataFails ==
    UndecodableMetadata
    => /\ ~wire.ok
       /\ connector_auth_type.type = "BodyKey"
          => wire = Err([kind |-> "MissingRequiredField",
                         field_name |-> "payment_details"])
       /\ connector_auth_type.type # "BodyKey"
          => wire = Err([kind |-> "FailedToObtainAuthType"])

\* A credit-card object without its expiration date, under usable credentials.
C24_Witness ==
    /\ UndecodableMetadata
    /\ connector_auth_type.type = "BodyKey"
    /\ item.request.connector_metadata
           = Some(JObj([creditCard |-> JObj([cardNumber |-> JStr("XXXX1111")])]))
    /\ wire = Err([kind |-> "MissingRequiredField", field_name |-> "payment_details"])

\* C25 as stated: a refund-sync Build fails with MissingConnectorRefundID when
\* the request carries no connector_refund_id, and otherwise emits a
\* get-transaction-details request whose transId is that refund id.
C25_RefundSyncEmitsRefundId ==
    op = "RSyncBuild"
    => IF item.request.connector_refund_id = None
       THEN wire = Err([kind |-> "MissingConnectorRefundID"])
       ELSE /\ wire.ok
            /\ wire.val.get_transaction_details_request.transaction_id
                   = item.request.connector_refund_id

\* C25, amended: a refund-sync Build fails with MissingConnectorRefundID when
\* the request carries no connector_refund_id, whatever the credentials; with a
\* connector_refund_id it emits, under BodyKey credentials, a
\* get-transaction-details request whose transId is that refund id, and fails
\* with FailedToObtainAuthType under any other credentials.
C25_RefundSyncBuild ==
    op = "RSyncBuild"
    => IF item.request.connector_refund_id = None
       THEN wire = Err([kind |-> "MissingConnectorRefundID"])
       ELSE IF connector_auth_type.type = "BodyKey"
       THEN /\ wire.ok
            /\ wire.val.get_transaction_details_request.transaction_id
                   = item.request.connector_refund_id
       ELSE wire = Err([kind |-> "FailedToObtainAuthType"])

\* A refund-sync request for refund t2 of payment t1 is built.
C25_Witness ==
    /\ op = "RSyncBuild"
    /\ item.request.connector_refund_id = Some("t2")
    /\ item.request.connector_transaction_id = "t1"
    /\ wire.ok
    /\ wire.val.get_transaction_details_request.transaction_id = Some("t2")

\* The prior response is a successful transaction response that carries a
\* connector transaction id.
HasTransactionId(prior) ==
    /\ prior.ok
    /\ prior.val.type = "TransactionResponse"
    /\ prior.val.resource_id.type = "ConnectorTransactionId"

\* C26 as stated: a payment-sync Build on a prior error response succeeds with
\* transId absent, on a prior successful transaction response it emits that
\* response's connector transaction id, and it fails with
\* ResponseHandlingFailed only when the prior successful response yields no
\* connector transaction id.
C26_PaymentSyncEmitsPriorId ==
    fn = "BuildPSync"
    => /\ ~args.prior.ok
          => /\ ret.ok
             /\ ret.val.get_transaction_details_request.transaction_id = None
       /\ HasTransactionId(args.prior)
          => /\ ret.ok
             /\ ret.val.get_transaction_details_request.transaction_id
                    = Some(args.prior.val.resource_id.id)
       /\ ret = Err([kind |-> "ResponseHandlingFailed"])
          => (args.prior.ok /\ ~HasTransactionId(args.prior))

\* C26, amended: a payment-sync Build fails with ResponseHandlingFailed exactly
\* when the prior response is successful and yields no connector transaction
\* id, whatever the credentials; otherwise, under BodyKey credentials it emits
\* a request with transId absent for a prior error response and with transId
\* the prior response's connector transaction id for a prior successful one,
\* and under any other credentials it fails with FailedToObtainAuthType.
C26_PaymentSyncBuild ==
    fn = "BuildPSync"
    => IF args.prior.ok /\ ~HasTransactionId(args.prior)
       THEN ret = Err([kind |-> "ResponseHandlingFailed"])
       ELSE IF connector_auth_type.type # "BodyKey"
       THEN ret = Err([kind |-> "FailedToObtainAuthType"])
       ELSE /\ ret.ok
            /\ ret.val.get_transaction_details_request.transaction_id
                   = IF args.prior.ok THEN Some(args.prior.val.resource_id.id)
                     ELSE None

\* A payment-sync request is built for a record whose prior response is an
\* error.
C26_Witness ==
    /\ fn = "BuildPSync"
    /\ ~args.prior.ok
    /\ connector_auth_type.type = "BodyKey"
    /\ ret.ok
    /\ ret.val.get_transaction_details_request.transaction_id = None

\* C27: each Parse changes only the fields it normalizes: the payment and the
\* payment-sync Parse return the record they were given with at most status
\* and response changed; the refund and the refund-sync Parse return it with
\* at most response changed, the record's status being as it was.
C27_ParseFrame ==
    /\ fn \in {"ParsePayments", "ParsePSync"}
       => /\ ret.result.ok
          /\ ret.result.val = [ret.item.data EXCEPT
                                  !.status = ret.result.val.status,
                                  !.response = ret.result.val.response]
    /\ fn \in {"ParseRefund", "ParseRSync"}
       => /\ ret.result.ok
          /\ ret.result.val = [ret.item.data EXCEPT
                                  !.response = ret.result.val.response]
          /\ ret.result.val.status = ret.item.data.status

\* The refund Parse has filled in the response of a record whose status is
\* Authorized and has left that status alone.
C27_Witness ==
    /\ fn = "ParseRefund"
    /\ ret.item.data.status = "Authorized"
    /\ ~ret.item.data.response.ok
    /\ ret.item.response.transaction_response.response_code = "Approved"
    /\ ret.result.val.response.ok
    /\ ret.result.val.status = "Authorized"

\* C28: when several inputs of a Build are invalid, the validation order fixes
\* the error: a refund Build without connector_metadata and with credentials
\* other than BodyKey reports the missing connector_metadata, and an authorize
\* Build for an unsupported wallet with credentials other than BodyKey reports
\* the payment-method error; neither reports FailedToObtainAuthType.
C28_ValidationOrder ==
    connector_auth_type.type # "BodyKey"
    => /\ (op = "RefundBuild" /\ item.request.connector_metadata = None)
          => wire = Err([kind |-> "MissingRequiredField",
                         field_name |-> "connector_metadata"])
       /\ (/\ op = "AuthorizeBuild"
           /\ item.request.payment_method_data.type = "Wallet"
           /\ item.request.payment_method_data.issuer_name # "GooglePay")
          => wire = Err([kind |-> "NotImplemented",
                         message |-> "Unknown Wallet in Payment Method"])

\* An authorize Build for an Apple Pay wallet under HeaderKey credentials
\* reports the wallet.
C28_Witness ==
    /\ op = "AuthorizeBuild"
    /\ item.request.payment_method_data.type = "Wallet"
    /\ item.request.payment_method_data.issuer_name = "ApplePay"
    /\ connector_auth_type.type = "HeaderKey"
    /\ ~wire.ok
    /\ wire.err.kind = "NotImplemented"

\* C21: every analytics route handler passes the lock action NotApplicable to
\* the request wrapper, and no resource lock is acquired for any analytics
\* request.
C21_NoAnalyticsLocking ==
    call.handler \in Handlers
    => /\ lock_action = NotApplicable
       /\ acquired = {}

\* A report-generation request has been served.
C21_Witness ==
    /\ call.handler = "generate_payment_report"
    /\ lock_action = NotApplicable
    /\ served.ok

\* The caller's role holds at least one of the permissions that the table
\* lists for the index.
RoleHoldsPermissionFor(index) ==
    \E k \in 1 .. Len(index_permissions) :
        /\ index_permissions[k][1] = index
        /\ \E j \in 1 .. Len(index_permissions[k][2]) :
               index_permissions[k][2][j] \in call.role_info.val

\* The error of a search that was executed and failed.
SearchErrors == {outcome.err : outcome \in {o \in SearchOutcomes : ~o.ok}}

\* C29: get_search_results runs the search, and that for the requested index
\* alone, if and only if the caller's role has at least one permission listed
\* for that index in the index-permission table; otherwise the search is not
\* executed and the handler returns IndexAccessNotPermittedError for that
\* index. No search is executed either when the role cannot be resolved.
C29_SearchOnlyWithPermission ==
    call.handler = "get_search_results"
    => LET index == Unwrap(call.index)
       IN  IF call.role_info.ok
           THEN IF RoleHoldsPermissionFor(index)
                THEN /\ searched = Some(<<index>>)
                     /\ served \in SearchOutcomes
                ELSE /\ searched = None
                     /\ served = Err([kind |-> "IndexAccessNotPermittedError",
                                      index |-> index])
           ELSE /\ searched = None
                /\ ~served.ok
                /\ served.err \notin SearchErrors

\* A role that holds RefundRead alone is refused the Disputes index.
C29_Witness ==
    /\ call.handler = "get_search_results"
    /\ call.index = Some("Disputes")
    /\ call.role_info = Ok({"RefundRead"})
    /\ searched = None
    /\ served = Err([kind |-> "IndexAccessNotPermittedError", index |-> "Disputes"])

\* C30: get_global_search_results searches exactly the indexes for which the
\* caller's role holds at least one of the permissions the index-permission
\* table lists for that index: none without a matching permission is
\* included, none with one is left out.
C30_GlobalSearchIndexes ==
    (call.handler = "get_global_search_results" /\ call.role_info.ok)
    => /\ IsSome(searched)
       /\ {Unwrap(searched)[k] : k \in 1 .. Len(Unwrap(searched))}
              = {index \in SearchIndex : RoleHoldsPermissionFor(index)}

\* A role that holds PaymentRead and DisputeWrite has some indexes searched
\* and the Refunds index left out.
C30_Witness ==
    /\ call.handler = "get_global_search_results"
    /\ call.role_info = Ok({"PaymentRead", "DisputeWrite", "Analytics"})
    /\ index_permissions = OPENSEARCH_INDEX_PERMISSIONS
    /\ searched = Some(<<"PaymentAttempts", "PaymentIntents", "Disputes">>)

====
